---- MODULE Spec2Model ----
(***************************************************************************)
(* Model of RVex (src/src/main.rs): a modal terminal text editor.          *)
(* The state is EditorState's fields, the file on disk, the terminal       *)
(* session and the position of main().  A line is a sequence of            *)
(* characters; the character "E" stands for U+00E9, which takes two bytes  *)
(* in UTF-8, every other character takes one.                              *)
(***************************************************************************)
EXTENDS Integers, Sequences, FiniteSets, TLC

VARIABLES mode, cursor, content, status_message, screen_size, should_exit,
          command_buffer, disk, term, tty, typed, writable, pc

vars == <<mode, cursor, content, status_message, screen_size, should_exit,
          command_buffer, disk, term, tty, typed, writable, pc>>

\* What the run is given and never changes: the sizes the terminal takes
\* (tty), the characters the user types into the text (typed) and whether
\* the file can be opened for writing (writable).
env == <<tty, typed, writable>>

\* EditorState without the fields a key handler can never touch.
editor == <<mode, cursor, content, status_message, should_exit, command_buffer>>

----------------------------------------------------------------------------
\* Bounds of the model.
\* The buffer holds at most MaxLines lines and MaxChars characters in all; the
\* command buffer holds at most MaxCmd characters.
MaxLines == 2
MaxChars == 2
MaxCmd == 2

\* Characters typed in Insert mode and found in files: one 1-byte, one 2-byte.
TextChars == {"a", "E"}
\* Characters typed in Command mode.
CmdChars == {"w", "q"}
\* A control character (char::is_control is true of it).
ControlChars == {"\t"}

NoMods == {}
Ctrl == {"CONTROL"}
Shift == {"SHIFT"}

Key(code, ch, mods) == [code |-> code, ch |-> ch, mods |-> mods]

\* Key presses offered while the mode is Normal: every binding of
\* handle_normal_mode, the guarded letters with and without Ctrl, and keys
\* that are not bound.
NormalKeys ==
    {Key("Char", c, NoMods) : c \in {"h", "j", "k", "l", "i", ":", "0", "$", "o", "w", "q", "d", "a"}}
    \cup {Key("Char", c, Ctrl) : c \in {"w", "q", "d", "i"}}
    \cup {Key(k, "", NoMods) : k \in {"Left", "Down", "Up", "Right", "Esc", "Enter", "Tab"}}

\* Key presses offered while the mode is Insert (of the text characters,
\* those the user of this run types).
InsertKeys ==
    {Key("Char", c, NoMods) : c \in TextChars \cup ControlChars}
    \cup {Key("Char", "a", Ctrl), Key("Char", "a", Shift)}
    \cup {Key(k, "", NoMods) : k \in {"Esc", "Backspace", "Delete", "Enter", "Tab"}}

\* Key presses offered while the mode is Command.
CommandKeys ==
    {Key("Char", c, NoMods) : c \in CmdChars}
    \cup {Key("Char", "w", Ctrl)}
    \cup {Key(k, "", NoMods) : k \in {"Esc", "Backspace", "Enter", "Tab"}}

\* Terminal sizes (rows, cols): the one every size query answers while the
\* window is left alone, and the ones it can answer when the window is resized.
DefaultSize == <<24, 80>>
Sizes == {DefaultSize, <<0, 4>>, <<24, 4>>}

----------------------------------------------------------------------------
\* Text helpers.

Utf8Len(c) == IF c = "E" THEN 2 ELSE 1

RECURSIVE TotalChars(_)
TotalChars(cont) ==
    IF cont = <<>> THEN 0 ELSE Len(Head(cont)) + TotalChars(Tail(cont))

RECURSIVE ByteLen(_)
ByteLen(line) ==
    IF line = <<>> THEN 0 ELSE Utf8Len(Head(line)) + ByteLen(Tail(line))

\* str::is_char_boundary
is_char_boundary(line, mid) ==
    \E k \in 0..Len(line) : ByteLen(SubSeq(line, 1, k)) = mid

\* str::split_at, for mid on a character boundary
split_at(line, mid) ==
    LET k == CHOOSE k \in 0..Len(line) : ByteLen(SubSeq(line, 1, k)) = mid
    IN  <<SubSeq(line, 1, k), SubSeq(line, k + 1, Len(line))>>

\* Vec::insert(i, x), for i <= len
VecInsert(v, i, x) == SubSeq(v, 1, i) \o <<x>> \o SubSeq(v, i + 1, Len(v))

\* Vec::remove(i), for i < len
VecRemove(v, i) == SubSeq(v, 1, i) \o SubSeq(v, i + 2, Len(v))

\* [String]::join("\n")
RECURSIVE join(_)
join(lines) ==
    IF lines = <<>> THEN <<>>
    ELSE IF Len(lines) = 1 THEN lines[1]
    ELSE lines[1] \o <<"\n">> \o join(Tail(lines))

\* str::lines(): a line ends at "\n" or at "\r\n", neither of which is part
\* of the line; a final empty piece is not a line; a carriage return that is
\* not followed by "\n" stays in its line.
RECURSIVE lines(_)
lines(text) ==
    IF text = <<>> THEN <<>>
    ELSE LET nl == {i \in 1..Len(text) : text[i] = "\n"}
         IN  IF nl = {} THEN <<text>>
             ELSE LET i == CHOOSE i \in nl : \A j \in nl : i <= j
                      piece == SubSeq(text, 1, i - 1)
                      line == IF piece # <<>> /\ piece[Len(piece)] = "\r"
                              THEN SubSeq(piece, 1, Len(piece) - 1)
                              ELSE piece
                  IN  <<line>> \o lines(SubSeq(text, i + 1, Len(text)))

NoFile == [exists |-> FALSE, text |-> <<>>]
File(text) == [exists |-> TRUE, text |-> text]

\* Files the path can name at startup.
SomeFiles == {NoFile, File(<<"E", "\n", "a">>)}
InitFiles ==
    SomeFiles \cup {File(<<>>), File(<<"a", "\n">>), File(<<"a", "E">>),
                    File(<<"a", "\n", "a">>)}
\* Files that hold a carriage return: inside a line, and before a newline.
CrFiles == {File(<<"\r", "a">>), File(<<"a", "\r", "\n", "a">>)}

\* The buffer EditorState::new makes of the file.  A file that exists but
\* cannot be read counts as empty (unwrap_or_default).
Load(file, readable) ==
    LET text == IF readable THEN file.text ELSE <<>>
        read == IF file.exists THEN lines(text) ELSE <<>>
    IN  IF read = <<>> THEN << <<>> >> ELSE read

----------------------------------------------------------------------------
\* main(), up to the event loop.

TermOff == [raw |-> FALSE, alt |-> FALSE, hidden |-> FALSE]

\* There is no EditorState in use: before EditorState::new, after the loop
\* (nothing reads `state` once `while !state.should_exit` has ended) and after
\* main has returned or panicked.  The fields are blank; the flag that ended
\* the loop is kept as it was last seen.
NoState ==
    /\ mode' = "Normal"
    /\ cursor' = <<0, 0>>
    /\ content' = <<>>
    /\ status_message' = <<"None">>
    /\ command_buffer' = <<>>
    /\ screen_size' = <<0, 0>>
    /\ UNCHANGED should_exit

\* main() is entered.
Start ==
    /\ pc = "prompt"
    /\ term = TermOff
    /\ mode = "Normal"
    /\ cursor = <<0, 0>>
    /\ content = <<>>
    /\ status_message = <<"None">>
    /\ screen_size = <<0, 0>>
    /\ should_exit = FALSE
    /\ command_buffer = <<>>

\* The window is left alone during the run; file and typed text are any text.
Init ==
    /\ Start
    /\ disk \in InitFiles
    /\ tty = {DefaultSize} /\ typed = TextChars /\ writable = TRUE

\* The user types no text: the text is what the file held, cut, split and
\* merged.
InitNoTyping ==
    /\ Start
    /\ disk \in SomeFiles
    /\ tty = {DefaultSize} /\ typed = {} /\ writable = TRUE

\* As Init, with a file that cannot be opened for writing.
InitReadOnly ==
    /\ Start
    /\ disk \in SomeFiles
    /\ tty = {DefaultSize} /\ typed = TextChars /\ writable = FALSE

\* As InitNoTyping, with a window that is resized during the run: every size
\* query answers any of Sizes.
InitResized ==
    /\ Start
    /\ disk \in SomeFiles
    /\ tty = Sizes /\ typed = {} /\ writable = TRUE

\* As InitNoTyping, with a file that holds a carriage return.
InitCarriageReturn ==
    /\ Start
    /\ disk \in CrFiles
    /\ tty = {DefaultSize} /\ typed = {} /\ writable = TRUE

\* A `?` hands the error to the caller of main: main returns Err.
ReturnErr == pc' = "err" /\ NoState /\ UNCHANGED <<disk, term, env>>

\* A panic in a key handler (index out of bounds, split off a character
\* boundary): nothing after it runs.
HandlerPanic == pc' = "panic_handler" /\ NoState /\ UNCHANGED <<disk, term, env>>

\* A panic while the frame is built (debug build, subtraction below zero).
RenderPanic == pc' = "panic_render" /\ NoState /\ UNCHANGED <<disk, term, env>>

\* print!, stdout().flush()?, stdin().read_line()?
Prompt ==
    /\ pc = "prompt"
    /\ \/ pc' = "raw" /\ UNCHANGED <<editor, screen_size, disk, term, env>>
       \/ ReturnErr

\* enable_raw_mode()?
EnableRaw ==
    /\ pc = "raw"
    /\ \/ /\ pc' = "alt"
          /\ term' = [term EXCEPT !.raw = TRUE]
          /\ UNCHANGED <<editor, screen_size, disk, env>>
       \/ ReturnErr

\* stdout.execute(EnterAlternateScreen)?
EnterAlt ==
    /\ pc = "alt"
    /\ \/ /\ pc' = "hide"
          /\ term' = [term EXCEPT !.alt = TRUE]
          /\ UNCHANGED <<editor, screen_size, disk, env>>
       \/ ReturnErr

\* stdout.execute(Hide)?
HideCursor ==
    /\ pc = "hide"
    /\ \/ /\ pc' = "new"
          /\ term' = [term EXCEPT !.hidden = TRUE]
          /\ UNCHANGED <<editor, screen_size, disk, env>>
       \/ ReturnErr

\* EditorState::new.  A file that exists but cannot be read counts as empty
\* (unwrap_or_default); a failed size query answers (24, 80).
New ==
    /\ pc = "new"
    /\ \E readable \in BOOLEAN, size \in tty :
         /\ content' = Load(disk, readable)
         /\ screen_size' = size
    /\ mode' = "Normal"
    /\ cursor' = <<0, 0>>
    /\ status_message' = <<"None">>
    /\ should_exit' = FALSE
    /\ command_buffer' = <<>>
    /\ pc' = "loop"
    /\ UNCHANGED <<disk, term, env>>

----------------------------------------------------------------------------
\* The event loop of main().  One action is one iteration: the frame, then
\* at most one key press handled.

\* usize subtraction that goes below zero: the debug build panics, the
\* release build wraps around to a number larger than anything it is
\* compared with.  Either build can be the one that runs.
Huge == 1000000

pure_sub(a, b) == IF a >= b THEN a - b ELSE Huge

saturating_sub(a, b) == IF a >= b THEN a - b ELSE 0

Min(a, b) == IF a <= b THEN a ELSE b

\* draw_content: the subtractions it evaluates that go below zero, given
\* state.screen_size and the columns its own size query answers.
draw_content_underflows(size, cols, cont) ==
    LET visible_lines == pure_sub(size[1], 1)
    IN  (IF size[1] < 1 THEN {"rows - 1"} ELSE {})
        \cup (IF Min(Len(cont), visible_lines) > 0 /\ cols < 5 THEN {"cols - 5"} ELSE {})

\* draw_content: the text drawn for each visible row (release arithmetic).
draw_content(size, cols, cont) ==
    LET visible_lines == pure_sub(size[1], 1)
        width == pure_sub(cols, 5)
    IN  [row \in 1..Min(Len(cont), visible_lines) |->
            SubSeq(cont[row], 1, Min(Len(cont[row]), width))]

\* The status line's `width = cols as usize - 1`.
status_underflows(size) == IF size[2] < 1 THEN {"cols - 1"} ELSE {}

\* while !state.should_exit: the flag is set, the loop ends.
LoopExit ==
    /\ pc = "loop"
    /\ should_exit
    /\ pc' = "show"
    /\ NoState
    /\ UNCHANGED <<disk, term, env>>

\* Mutant of Iterate: the loop goes on whatever the flag says.
Iterate_Always == pc = "loop"

\* while !state.should_exit: the flag is clear, one more iteration.
Iterate == pc = "loop" /\ ~should_exit

\* The iteration gets to its end: the size query, the frame (draw_content,
\* status line, cursor), the flush, the poll and the read all succeed.  When
\* a subtraction of the frame goes below zero only the release build does.
Continue ==
    /\ \E size \in tty : screen_size' = size
    /\ pc' = "loop"

\* The debug build panics on a subtraction of the frame that goes below zero.
FramePanic ==
    /\ Iterate
    /\ \E size \in tty, dsize \in tty :
         draw_content_underflows(size, dsize[2], content)
           \cup status_underflows(size) # {}
    /\ RenderPanic

\* terminal::size()?, flush()?, poll()? or read()? returns the error.
LoopError ==
    /\ Iterate
    /\ ReturnErr

\* The 100 ms of event::poll pass with no event, or the event read is not a
\* key press: the iteration ends with nothing dispatched.
NoKey ==
    /\ Iterate
    /\ Continue
    /\ UNCHANGED <<editor, disk, term, env>>

\* After the loop: stdout.execute(Show)?
ShowCursor ==
    /\ pc = "show"
    /\ \/ /\ pc' = "leave"
          /\ term' = [term EXCEPT !.hidden = FALSE]
          /\ UNCHANGED <<editor, screen_size, disk, env>>
       \/ ReturnErr

\* stdout.execute(LeaveAlternateScreen)?
LeaveAlt ==
    /\ pc = "leave"
    /\ \/ /\ pc' = "disable"
          /\ term' = [term EXCEPT !.alt = FALSE]
          /\ UNCHANGED <<editor, screen_size, disk, env>>
       \/ ReturnErr

\* disable_raw_mode()?; Ok(())
DisableRaw ==
    /\ pc = "disable"
    /\ \/ /\ pc' = "ok"
          /\ term' = [term EXCEPT !.raw = FALSE]
          /\ UNCHANGED <<editor, screen_size, disk, env>>
       \/ ReturnErr

----------------------------------------------------------------------------
\* EditorState's methods.

Row == cursor[1]
Col == cursor[2]

\* An index expression content[row] panics when row is out of bounds.
InBounds(cont, row) == row < Len(cont)

\* EditorState::adjust_column indexes content[cursor.0] after clamping the
\* row: it panics when content is empty.
adjust_column_panics(cur, cont) == Len(cont) = 0

adjust_column(cur, cont) ==
    LET row == IF cur[1] >= Len(cont) THEN saturating_sub(Len(cont), 1) ELSE cur[1]
        line_len == Len(cont[row + 1])
    IN  <<row, IF cur[2] > line_len THEN line_len ELSE cur[2]>>

\* fs::write: the outcomes of a failed write.  The file was not opened at
\* all, or was truncated and holds a part of the data.
FailedWrites(data) ==
    {disk} \cup IF writable
               THEN {File(SubSeq(data, 1, n)) : n \in 0..(Len(data) - 1)}
               ELSE {}

\* EditorState::save_file
save_file ==
    \/ /\ writable
       /\ disk' = File(join(content))
       /\ status_message' = <<"File saved">>
    \/ /\ disk' \in FailedWrites(join(content))
       /\ status_message' = <<"Save error">>

----------------------------------------------------------------------------
\* A key press arrives (Event::Key of kind Press) and main dispatches it on
\* state.mode.  A handler that returns ends the iteration.

IsChar(ev, c) == ev.code = "Char" /\ ev.ch = c

Pressed(m, keys, ev) == Iterate /\ mode = m /\ ev \in keys

Return == Continue /\ UNCHANGED <<disk, term, env>>

\* handle_normal_mode -------------------------------------------------------

\* 'h' | Left
NormalLeft(ev) ==
    /\ Pressed("Normal", NormalKeys, ev)
    /\ IsChar(ev, "h") \/ ev.code = "Left"
    /\ cursor' = <<Row, saturating_sub(Col, 1)>>
    /\ Return
    /\ UNCHANGED <<mode, content, status_message, should_exit, command_buffer>>

\* 'j' | Down
NormalDown(ev) ==
    /\ Pressed("Normal", NormalKeys, ev)
    /\ IsChar(ev, "j") \/ ev.code = "Down"
    /\ IF Row < saturating_sub(Len(content), 1)
       THEN cursor' = adjust_column(<<Row + 1, Col>>, content)
       ELSE cursor' = cursor
    /\ Return
    /\ UNCHANGED <<mode, content, status_message, should_exit, command_buffer>>

\* 'k' | Up
NormalUp(ev) ==
    /\ Pressed("Normal", NormalKeys, ev)
    /\ IsChar(ev, "k") \/ ev.code = "Up"
    /\ LET cur == <<saturating_sub(Row, 1), Col>>
       IN  IF adjust_column_panics(cur, content)
           THEN HandlerPanic
           ELSE /\ cursor' = adjust_column(cur, content)
                /\ Return
                /\ UNCHANGED <<mode, content, status_message, should_exit, command_buffer>>

\* 'l' | Right
NormalRight(ev) ==
    /\ Pressed("Normal", NormalKeys, ev)
    /\ IsChar(ev, "l") \/ ev.code = "Right"
    /\ IF ~InBounds(content, Row)
       THEN HandlerPanic
       ELSE /\ cursor' = IF Col < Len(content[Row + 1]) THEN <<Row, Col + 1>> ELSE cursor
            /\ Return
            /\ UNCHANGED <<mode, content, status_message, should_exit, command_buffer>>

\* 'i'
NormalInsert(ev) ==
    /\ Pressed("Normal", NormalKeys, ev)
    /\ IsChar(ev, "i")
    /\ mode' = "Insert"
    /\ Return
    /\ UNCHANGED <<cursor, content, status_message, should_exit, command_buffer>>

\* ':'
NormalCommand(ev) ==
    /\ Pressed("Normal", NormalKeys, ev)
    /\ IsChar(ev, ":")
    /\ mode' = "Command"
    /\ Return
    /\ UNCHANGED <<cursor, content, status_message, should_exit, command_buffer>>

\* '0': move_to_line_start
NormalLineStart(ev) ==
    /\ Pressed("Normal", NormalKeys, ev)
    /\ IsChar(ev, "0")
    /\ cursor' = <<Row, 0>>
    /\ Return
    /\ UNCHANGED <<mode, content, status_message, should_exit, command_buffer>>

\* '$': move_to_line_end
NormalLineEnd(ev) ==
    /\ Pressed("Normal", NormalKeys, ev)
    /\ IsChar(ev, "$")
    /\ IF ~InBounds(content, Row)
       THEN HandlerPanic
       ELSE /\ cursor' = <<Row, Len(content[Row + 1])>>
            /\ Return
            /\ UNCHANGED <<mode, content, status_message, should_exit, command_buffer>>

\* 'w' if CONTROL
NormalSave(ev) ==
    /\ Pressed("Normal", NormalKeys, ev)
    /\ IsChar(ev, "w") /\ "CONTROL" \in ev.mods
    /\ save_file
    /\ Continue
    /\ UNCHANGED <<mode, cursor, content, should_exit, command_buffer, term, env>>

\* 'q' if CONTROL
NormalQuit(ev) ==
    /\ Pressed("Normal", NormalKeys, ev)
    /\ IsChar(ev, "q") /\ "CONTROL" \in ev.mods
    /\ should_exit' = TRUE
    /\ Return
    /\ UNCHANGED <<mode, cursor, content, status_message, command_buffer>>

\* 'o'.  Vec::insert panics when the index is past the end.
NormalOpenLine(ev) ==
    /\ Pressed("Normal", NormalKeys, ev)
    /\ IsChar(ev, "o")
    /\ IF Row + 1 > Len(content)
       THEN HandlerPanic
       ELSE /\ Len(content) < MaxLines
            /\ content' = VecInsert(content, Row + 1, <<>>)
            /\ cursor' = <<Row + 1, 0>>
            /\ mode' = "Insert"
            /\ Return
            /\ UNCHANGED <<status_message, should_exit, command_buffer>>

\* 'd' if CONTROL
NormalDeleteLine(ev) ==
    /\ Pressed("Normal", NormalKeys, ev)
    /\ IsChar(ev, "d") /\ "CONTROL" \in ev.mods
    /\ IF content # <<>> /\ ~InBounds(content, Row)
       THEN HandlerPanic
       ELSE /\ IF content # <<>>
               THEN LET removed == VecRemove(content, Row)
                    IN  /\ content' = removed
                        /\ cursor' = IF Row >= Len(removed) /\ removed # <<>>
                                     THEN <<Len(removed) - 1, Col>>
                                     ELSE cursor
               ELSE UNCHANGED <<cursor, content>>
            /\ Return
            /\ UNCHANGED <<mode, status_message, should_exit, command_buffer>>

\* The keys handle_normal_mode binds.
NormalBound(ev) ==
    \/ ev.code \in {"Left", "Down", "Up", "Right"}
    \/ /\ ev.code = "Char"
       /\ \/ ev.ch \in {"h", "j", "k", "l", "i", ":", "0", "$", "o"}
          \/ ev.ch \in {"w", "q", "d"} /\ "CONTROL" \in ev.mods

\* _ => {}
NormalOther(ev) ==
    /\ Pressed("Normal", NormalKeys, ev)
    /\ ~NormalBound(ev)
    /\ Return
    /\ UNCHANGED editor

handle_normal_mode(ev) ==
    \/ NormalLeft(ev) \/ NormalDown(ev) \/ NormalUp(ev) \/ NormalRight(ev)
    \/ NormalInsert(ev) \/ NormalCommand(ev) \/ NormalLineStart(ev)
    \/ NormalLineEnd(ev) \/ NormalSave(ev) \/ NormalQuit(ev)
    \/ NormalOpenLine(ev) \/ NormalDeleteLine(ev) \/ NormalOther(ev)

\* handle_insert_mode -------------------------------------------------------

\* Mutant of InsertEsc: Esc in Insert mode goes on to Command mode.
InsertEsc_ToCommand(ev) ==
    /\ Pressed("Insert", InsertKeys, ev)
    /\ ev.code = "Esc"
    /\ mode' = "Command"
    /\ Return
    /\ UNCHANGED <<cursor, content, status_message, should_exit, command_buffer>>

\* Esc
InsertEsc(ev) ==
    /\ Pressed("Insert", InsertKeys, ev)
    /\ ev.code = "Esc"
    /\ mode' = "Normal"
    /\ Return
    /\ UNCHANGED <<cursor, content, status_message, should_exit, command_buffer>>

\* What a handler arm makes of buffer and cursor: it panics, or it returns
\* with them as given here.
Panics == [panic |-> TRUE, content |-> <<>>, cursor |-> <<0, 0>>]
Returns(cont, cur) == [panic |-> FALSE, content |-> cont, cursor |-> cur]

\* The Backspace arm on buffer cont and cursor cur.  Vec::remove panics when
\* the index is not below the length, content[row] when there is no such line.
Backspace(cont, cur) ==
    LET row == cur[1]
        col == cur[2]
    IN  IF col > 0
        THEN IF ~InBounds(cont, row) \/ col - 1 >= Len(cont[row + 1])
             THEN Panics
             ELSE Returns([cont EXCEPT ![row + 1] = VecRemove(@, col - 1)],
                          <<row, col - 1>>)
        ELSE IF row > 0
        THEN IF ~InBounds(cont, row)
             THEN Panics
             ELSE LET current_line == cont[row + 1]
                      removed == VecRemove(cont, row)
                      prev_line == removed[row]
                  IN  Returns([removed EXCEPT ![row] = prev_line \o current_line],
                              <<row - 1, Len(prev_line)>>)
        ELSE Returns(cont, cur)

\* Backspace
InsertBackspace(ev) ==
    /\ Pressed("Insert", InsertKeys, ev)
    /\ ev.code = "Backspace"
    /\ LET done == Backspace(content, cursor)
       IN  IF done.panic
           THEN HandlerPanic
           ELSE /\ content' = done.content
                /\ cursor' = done.cursor
                /\ Return
                /\ UNCHANGED <<mode, status_message, should_exit, command_buffer>>

\* Delete
InsertDelete(ev) ==
    /\ Pressed("Insert", InsertKeys, ev)
    /\ ev.code = "Delete"
    /\ IF ~InBounds(content, Row)
       THEN HandlerPanic
       ELSE /\ content' = IF Col < Len(content[Row + 1])
                          THEN [content EXCEPT ![Row + 1] = VecRemove(@, Col)]
                          ELSE content
            /\ Return
            /\ UNCHANGED <<mode, cursor, status_message, should_exit, command_buffer>>

\* Enter.  The line is split at the byte offset cursor.1; str::split_at panics
\* when the offset is not on a character boundary.
InsertEnter(ev) ==
    /\ Pressed("Insert", InsertKeys, ev)
    /\ ev.code = "Enter"
    /\ IF ~InBounds(content, Row) \/ ~is_char_boundary(content[Row + 1], Col)
       THEN HandlerPanic
       ELSE LET parts == split_at(content[Row + 1], Col)
            IN  /\ Len(content) < MaxLines
                /\ content' = VecInsert([content EXCEPT ![Row + 1] = parts[1]],
                                        Row + 1, parts[2])
                /\ cursor' = <<Row + 1, 0>>
                /\ Return
                /\ UNCHANGED <<mode, status_message, should_exit, command_buffer>>

is_control(c) == c \in ControlChars

\* Mutant of InsertChar: held modifiers are not looked at.
InsertChar_AnyModifier(ev) ==
    /\ Pressed("Insert", InsertKeys, ev)
    /\ ev.code = "Char"
    /\ IF is_control(ev.ch)
       THEN Return /\ UNCHANGED editor
       ELSE IF ~InBounds(content, Row) \/ Col > Len(content[Row + 1])
            THEN HandlerPanic
            ELSE /\ ev.ch \in typed
                 /\ TotalChars(content) < MaxChars
                 /\ content' = [content EXCEPT ![Row + 1] = VecInsert(@, Col, ev.ch)]
                 /\ cursor' = <<Row, Col + 1>>
                 /\ Return
                 /\ UNCHANGED <<mode, status_message, should_exit, command_buffer>>

\* Mutant of InsertChar: the character goes to the end of the line.
InsertChar_Append(ev) ==
    /\ Pressed("Insert", InsertKeys, ev)
    /\ ev.code = "Char"
    /\ IF is_control(ev.ch) \/ ev.mods # NoMods
       THEN Return /\ UNCHANGED editor
       ELSE IF ~InBounds(content, Row) \/ Col > Len(content[Row + 1])
            THEN HandlerPanic
            ELSE /\ ev.ch \in typed
                 /\ TotalChars(content) < MaxChars
                 /\ content' = [content EXCEPT ![Row + 1] = Append(@, ev.ch)]
                 /\ cursor' = <<Row, Col + 1>>
                 /\ Return
                 /\ UNCHANGED <<mode, status_message, should_exit, command_buffer>>

\* Char(c).  Vec::insert panics when the index is past the end.
InsertChar(ev) ==
    /\ Pressed("Insert", InsertKeys, ev)
    /\ ev.code = "Char"
    /\ IF is_control(ev.ch) \/ ev.mods # NoMods
       THEN Return /\ UNCHANGED editor
       ELSE IF ~InBounds(content, Row) \/ Col > Len(content[Row + 1])
            THEN HandlerPanic
            ELSE /\ ev.ch \in typed
                 /\ TotalChars(content) < MaxChars
                 /\ content' = [content EXCEPT ![Row + 1] = VecInsert(@, Col, ev.ch)]
                 /\ cursor' = <<Row, Col + 1>>
                 /\ Return
                 /\ UNCHANGED <<mode, status_message, should_exit, command_buffer>>

\* _ => {}
InsertOther(ev) ==
    /\ Pressed("Insert", InsertKeys, ev)
    /\ ev.code \notin {"Esc", "Backspace", "Delete", "Enter", "Char"}
    /\ Return
    /\ UNCHANGED editor

handle_insert_mode(ev) ==
    \/ InsertEsc(ev) \/ InsertBackspace(ev) \/ InsertDelete(ev)
    \/ InsertEnter(ev) \/ InsertChar(ev) \/ InsertOther(ev)

\* Mode::Command, in main ---------------------------------------------------

\* Mutant of handle_command_mode: `w` is matched as a prefix.
handle_command_mode_Prefix ==
    /\ IF command_buffer # <<>> /\ Head(command_buffer) = "w"
          /\ command_buffer # <<"w", "q">>
       THEN save_file /\ UNCHANGED should_exit
       ELSE IF command_buffer = <<"q">>
       THEN should_exit' = TRUE /\ UNCHANGED <<status_message, disk>>
       ELSE IF command_buffer = <<"w", "q">>
       THEN save_file /\ should_exit' = TRUE
       ELSE /\ status_message' = <<"Unknown command">>
            /\ UNCHANGED <<should_exit, disk>>
    /\ command_buffer' = <<>>

\* Mutant of handle_command_mode: a command that is not known ends the editor.
handle_command_mode_UnknownQuits ==
    /\ IF command_buffer = <<"w">>
       THEN save_file /\ UNCHANGED should_exit
       ELSE IF command_buffer = <<"q">>
       THEN should_exit' = TRUE /\ UNCHANGED <<status_message, disk>>
       ELSE IF command_buffer = <<"w", "q">>
       THEN save_file /\ should_exit' = TRUE
       ELSE /\ status_message' = <<"Unknown command">>
            /\ should_exit' = TRUE
            /\ UNCHANGED disk
    /\ command_buffer' = <<>>

\* handle_command_mode: the match on command_buffer, then clear().  The
\* status message is kept by its kind; the text after "Unknown command: "
\* and "Save error: " is left out.
handle_command_mode ==
    /\ IF command_buffer = <<"w">>
       THEN save_file /\ UNCHANGED should_exit
       ELSE IF command_buffer = <<"q">>
       THEN should_exit' = TRUE /\ UNCHANGED <<status_message, disk>>
       ELSE IF command_buffer = <<"w", "q">>
       THEN save_file /\ should_exit' = TRUE
       ELSE /\ status_message' = <<"Unknown command">>
            /\ UNCHANGED <<should_exit, disk>>
    /\ command_buffer' = <<>>

\* Enter
CommandEnter(ev) ==
    /\ Pressed("Command", CommandKeys, ev)
    /\ ev.code = "Enter"
    /\ handle_command_mode
    /\ Continue
    /\ UNCHANGED <<mode, cursor, content, term, env>>

\* Char(c): String::push
CommandChar(ev) ==
    /\ Pressed("Command", CommandKeys, ev)
    /\ ev.code = "Char"
    /\ Len(command_buffer) < MaxCmd
    /\ command_buffer' = Append(command_buffer, ev.ch)
    /\ Return
    /\ UNCHANGED <<mode, cursor, content, status_message, should_exit>>

\* Mutant of CommandBackspace: the cursor moves left as well.
CommandBackspace_MovesCursor(ev) ==
    /\ Pressed("Command", CommandKeys, ev)
    /\ ev.code = "Backspace"
    /\ command_buffer' = SubSeq(command_buffer, 1, Len(command_buffer) - 1)
    /\ cursor' = <<Row, saturating_sub(Col, 1)>>
    /\ Return
    /\ UNCHANGED <<mode, content, status_message, should_exit>>

\* Backspace: String::pop
CommandBackspace(ev) ==
    /\ Pressed("Command", CommandKeys, ev)
    /\ ev.code = "Backspace"
    /\ command_buffer' = SubSeq(command_buffer, 1, Len(command_buffer) - 1)
    /\ Return
    /\ UNCHANGED <<mode, cursor, content, status_message, should_exit>>

\* Mutant of CommandEsc: the command buffer is not cleared.
CommandEsc_NoClear(ev) ==
    /\ Pressed("Command", CommandKeys, ev)
    /\ ev.code = "Esc"
    /\ mode' = "Normal"
    /\ Return
    /\ UNCHANGED <<cursor, content, status_message, should_exit, command_buffer>>

\* Esc
CommandEsc(ev) ==
    /\ Pressed("Command", CommandKeys, ev)
    /\ ev.code = "Esc"
    /\ mode' = "Normal"
    /\ command_buffer' = <<>>
    /\ Return
    /\ UNCHANGED <<cursor, content, status_message, should_exit>>

\* _ => {}
CommandOther(ev) ==
    /\ Pressed("Command", CommandKeys, ev)
    /\ ev.code \notin {"Enter", "Char", "Backspace", "Esc"}
    /\ Return
    /\ UNCHANGED editor

command_mode_keys(ev) ==
    \/ CommandEnter(ev) \/ CommandChar(ev) \/ CommandBackspace(ev)
    \/ CommandEsc(ev) \/ CommandOther(ev)

----------------------------------------------------------------------------
Next ==
    \/ Prompt \/ EnableRaw \/ EnterAlt \/ HideCursor \/ New
    \/ LoopExit \/ LoopError \/ NoKey
    \/ \E ev \in NormalKeys :
         \/ NormalLeft(ev) \/ NormalDown(ev) \/ NormalUp(ev) \/ NormalRight(ev)
         \/ NormalInsert(ev) \/ NormalCommand(ev) \/ NormalLineStart(ev)
         \/ NormalLineEnd(ev) \/ NormalSave(ev) \/ NormalQuit(ev)
         \/ NormalOpenLine(ev) \/ NormalDeleteLine(ev) \/ NormalOther(ev)
    \/ \E ev \in InsertKeys :
         \/ InsertEsc(ev) \/ InsertBackspace(ev) \/ InsertDelete(ev)
         \/ InsertEnter(ev) \/ InsertChar(ev) \/ InsertOther(ev)
    \/ \E ev \in CommandKeys :
         \/ CommandEnter(ev) \/ CommandChar(ev) \/ CommandBackspace(ev)
         \/ CommandEsc(ev) \/ CommandOther(ev)
    \/ ShowCursor \/ LeaveAlt \/ DisableRaw

Spec == Init /\ [][Next]_vars

SpecNoTyping == InitNoTyping /\ [][Next]_vars

SpecReadOnly == InitReadOnly /\ [][Next]_vars

SpecCarriageReturn == InitCarriageReturn /\ [][Next]_vars

\* With a window that can be small, the frame can panic as well.
NextResized == Next \/ FramePanic

SpecResized == InitResized /\ [][NextResized]_vars
----------------------------------------------------------------------------
\* Properties.

\* The loop is at its head with an EditorState: between two key presses.
Editing == pc = "loop"

\* This step is the dispatch of one key press that returned to the loop.
KeyStep == pc = "loop" /\ pc' = "loop"

\* C1: in every state reached by key presses the cursor row is below the
\* number of lines and the cursor column is at most the character count of
\* the line at the cursor row.
C1_CursorInBounds ==
    Editing => /\ Row < Len(content)
               /\ Col <= Len(content[Row + 1])

\* C2: the buffer never has zero lines.
C2_BufferNonEmpty == Editing => Len(content) >= 1

\* C3: no key press drives a handler into a panic (an index out of bounds, a
\* split off a character boundary).
C3_NoHandlerPanic == pc # "panic_handler"

\* C7: whenever main has returned, by Ok or by Err, the terminal session is
\* released: raw mode off, alternate screen left, cursor shown.
C7_TerminalReleased == pc \in {"ok", "err"} => term = TermOff

\* The step is Enter pressed in Command mode.
EnterInCommand == \E ev \in CommandKeys : CommandEnter(ev)

\* The step is a save attempt: Ctrl+W in Normal mode, or `w` or `wq` executed.
SaveAttempt ==
    \/ \E ev \in NormalKeys : NormalSave(ev)
    \/ EnterInCommand /\ command_buffer \in {<<"w">>, <<"w", "q">>}

\* The step wrote the buffer to the file, or tried to and failed.
WroteFile ==
    \/ status_message' = <<"File saved">> /\ disk' = File(join(content))
    \/ status_message' = <<"Save error">> /\ disk' \in FailedWrites(join(content))

\* C4: Enter in Command mode, whatever the command buffer holds, returns the
\* mode to Normal.
C4_EnterLeavesCommandMode == [][EnterInCommand => mode' = "Normal"]_vars

\* C5: a submitted command is matched exactly: `w` writes the file and leaves
\* the exit flag alone, `q` sets the exit flag and does not touch the file,
\* `wq` writes the file and sets the exit flag, and any other command neither
\* touches the file nor sets the exit flag.
C5_ExactCommands ==
    [][EnterInCommand =>
         IF command_buffer = <<"w">>
         THEN WroteFile /\ should_exit' = should_exit
         ELSE IF command_buffer = <<"q">>
         THEN should_exit' /\ disk' = disk /\ status_message' = status_message
         ELSE IF command_buffer = <<"w", "q">>
         THEN WroteFile /\ should_exit'
         ELSE disk' = disk /\ should_exit' = should_exit]_vars

\* C5 witness: `wq` was executed: the file holds the buffer and the exit flag
\* is set, with the loop not yet left.
C5_Witness ==
    /\ Editing /\ mode = "Command" /\ should_exit
    /\ status_message = <<"File saved">>
    /\ Len(content) = 2
    /\ disk = File(join(content))

\* C6: a save attempt that fails sets an error status message, does not set
\* the exit flag and leaves buffer and cursor as they were.
C6_FailedSaveKeepsEditing ==
    [][(SaveAttempt /\ status_message' = <<"Save error">>) =>
         /\ ~should_exit'
         /\ content' = content
         /\ cursor' = cursor]_vars

\* The step is Enter pressed in Insert mode with the cursor inside the buffer.
EnterInInsert ==
    /\ \E ev \in InsertKeys : InsertEnter(ev)
    /\ Row < Len(content)
    /\ Col <= Len(content[Row + 1])

\* C8: Enter in Insert mode at (r, c) keeps the first c characters of line r,
\* puts the rest on a new line r+1, keeps the other lines and moves the
\* cursor to (r+1, 0), whatever characters the line holds.
C8_EnterSplitsAtCharacter ==
    [][EnterInInsert =>
         /\ pc' = "loop"
         /\ content' = SubSeq(content, 1, Row)
                         \o <<SubSeq(content[Row + 1], 1, Col),
                              SubSeq(content[Row + 1], Col + 1, Len(content[Row + 1]))>>
                         \o SubSeq(content, Row + 2, Len(content))
         /\ cursor' = <<Row + 1, 0>>]_vars

\* C9: the mode is Normal when the loop starts, and a key press changes the
\* mode only in one of these ways: Normal to Insert on `i` or `o`, Normal to
\* Command on `:`, Insert to Normal on Esc, Command to Normal on Esc or Enter.
C9_ModeTransitions ==
    [][/\ (pc = "new" /\ pc' = "loop") => mode' = "Normal"
       /\ (KeyStep /\ mode' # mode) =>
            \/ /\ mode = "Normal" /\ mode' = "Insert"
               /\ \E ev \in NormalKeys :
                    (IsChar(ev, "i") \/ IsChar(ev, "o")) /\ handle_normal_mode(ev)
            \/ /\ mode = "Normal" /\ mode' = "Command"
               /\ \E ev \in NormalKeys : IsChar(ev, ":") /\ handle_normal_mode(ev)
            \/ /\ mode = "Insert" /\ mode' = "Normal"
               /\ \E ev \in InsertKeys : ev.code = "Esc" /\ handle_insert_mode(ev)
            \/ /\ mode = "Command" /\ mode' = "Normal"
               /\ \E ev \in CommandKeys :
                    ev.code \in {"Esc", "Enter"} /\ command_mode_keys(ev)]_vars

\* C9 witness: the mode went Normal, Insert (by `o`), Normal, Command.
C9_Witness ==
    /\ Editing /\ mode = "Command"
    /\ content = << <<>>, <<>> >> /\ cursor = <<1, 0>>

\* C10: the command buffer is empty whenever the mode is not Command, is
\* empty right after `:`, Enter and Esc, grows by the typed character on a
\* character key and loses its last character on Backspace (none when empty).
C10_CommandBuffer ==
    /\ [](Editing /\ mode # "Command" => command_buffer = <<>>)
    /\ [][/\ (\E ev \in NormalKeys : NormalCommand(ev)) => command_buffer' = <<>>
          /\ EnterInCommand => command_buffer' = <<>>
          /\ (\E ev \in CommandKeys : CommandEsc(ev)) => command_buffer' = <<>>
          /\ \A ev \in CommandKeys :
               /\ CommandChar(ev) =>
                    /\ Len(command_buffer') = Len(command_buffer) + 1
                    /\ command_buffer'[Len(command_buffer')] = ev.ch
                    /\ SubSeq(command_buffer', 1, Len(command_buffer)) = command_buffer
               /\ CommandBackspace(ev) =>
                    IF command_buffer = <<>>
                    THEN command_buffer' = <<>>
                    ELSE command_buffer' \o <<command_buffer[Len(command_buffer)]>>
                           = command_buffer]_vars

\* C10 witness: an unknown command was executed, which emptied the command
\* buffer, and two characters were typed after it.
C10_Witness ==
    /\ Editing /\ mode = "Command"
    /\ command_buffer = <<"q", "w">>
    /\ status_message = <<"Unknown command">>

\* C11: a submitted command other than `w`, `q` and `wq` (the empty command
\* included) sets the status message to the unknown-command notice and leaves
\* buffer lines, cursor, exit flag (false) and the file on disk as they were.
C11_UnknownCommand ==
    [][(EnterInCommand /\ command_buffer \notin {<<"w">>, <<"q">>, <<"w", "q">>}) =>
         /\ status_message' = <<"Unknown command">>
         /\ content' = content
         /\ cursor' = cursor
         /\ should_exit' = FALSE
         /\ disk' = disk
         /\ term' = term]_vars

\* C11 witness: an unknown command was executed with the cursor moved off
\* the origin; the editor is still in its loop with the exit flag clear.
C11_Witness ==
    /\ Editing /\ mode = "Command" /\ ~should_exit
    /\ status_message = <<"Unknown command">>
    /\ command_buffer = <<>>
    /\ cursor = <<0, 1>>
    /\ disk.exists

\* The step is Backspace pressed in Insert mode.
BackspaceInInsert == \E ev \in InsertKeys : InsertBackspace(ev)

\* C12: Backspace in Insert mode at (r, c) removes the character at c-1 of
\* line r and moves the column to c-1 when c > 0; appends line r to line r-1,
\* removes line r and moves the cursor to (r-1, old length of line r-1) when
\* c = 0 and r > 0; changes nothing when c = 0 and r = 0.
C12_Backspace ==
    [][BackspaceInInsert =>
         /\ pc' = "loop"
         /\ IF Col > 0
            THEN /\ content' = [content EXCEPT ![Row + 1] =
                                   SubSeq(@, 1, Col - 1) \o SubSeq(@, Col + 1, Len(@))]
                 /\ Len(content'[Row + 1]) = Len(content[Row + 1]) - 1
                 /\ cursor' = <<Row, Col - 1>>
            ELSE IF Row > 0
            THEN /\ content' = SubSeq(content, 1, Row - 1)
                                 \o <<content[Row] \o content[Row + 1]>>
                                 \o SubSeq(content, Row + 2, Len(content))
                 /\ cursor' = <<Row - 1, Len(content[Row])>>
            ELSE content' = content /\ cursor' = cursor]_vars

\* The cursor is inside the buffer.
ValidCursor == Row < Len(content) /\ Col <= Len(content[Row + 1])

\* The step is a character key in Insert mode that the handler does not
\* ignore: not a control character, no modifier held.
InsertsChar ==
    \E ev \in InsertKeys :
        InsertChar(ev) /\ ev.code = "Char" /\ ~is_control(ev.ch) /\ ev.mods = NoMods

\* C13: from every buffer and valid cursor (r, k), after a character is
\* inserted, Backspace gives back the buffer as it was and the cursor (r, k).
C13_InsertThenBackspace ==
    [][(InsertsChar /\ ValidCursor) =>
         /\ pc' = "loop" /\ mode' = "Insert"
         /\ Backspace(content', cursor') = Returns(content, cursor)]_vars

\* C13 witness: a character was typed in front of another one (the file is
\* missing, so both were typed), with the cursor between them.
C13_Witness ==
    /\ Editing /\ mode = "Insert" /\ ~disk.exists
    /\ content = << <<"E", "a">> >> /\ cursor = <<0, 1>>

\* C14: in Normal mode `h`/Left and `l`/Right leave row and buffer alone and
\* keep the column within the current line: `h` at column 0 and `l` at the
\* end of the line leave the cursor where it is, otherwise the column moves
\* by exactly one.
C14_HorizontalMoves ==
    [][\A ev \in NormalKeys :
         /\ NormalLeft(ev) =>
              /\ pc' = "loop" /\ content' = content /\ cursor'[1] = Row
              /\ cursor'[2] = IF Col = 0 THEN 0 ELSE Col - 1
              /\ Row < Len(content)
              /\ cursor'[2] <= Len(content[Row + 1])
         /\ NormalRight(ev) =>
              /\ pc' = "loop" /\ content' = content /\ cursor'[1] = Row
              /\ Row < Len(content)
              /\ cursor'[2] = IF Col = Len(content[Row + 1]) THEN Col ELSE Col + 1
              /\ cursor'[2] <= Len(content[Row + 1])]_vars

\* C15: a character key in Insert mode that carries a control character or
\* comes with any modifier held leaves buffer, cursor and mode as they were;
\* any other character key that is handled puts its character at the cursor
\* column, counted in characters, and moves the column one to the right.
C15_CharKeys ==
    [][\A ev \in InsertKeys :
         InsertChar(ev) =>
           IF is_control(ev.ch) \/ ev.mods # NoMods
           THEN /\ pc' = "loop"
                /\ content' = content /\ cursor' = cursor /\ mode' = mode
           ELSE pc' = "loop" =>
                  /\ content' = [content EXCEPT ![Row + 1] =
                                    SubSeq(@, 1, Col) \o <<ev.ch>>
                                      \o SubSeq(@, Col + 1, Len(@))]
                  /\ cursor' = <<Row, Col + 1>>
                  /\ mode' = mode]_vars

\* C15 witness: two characters were typed one after the other into the empty
\* buffer of a missing file, the second one a two-byte character.
C15_Witness ==
    /\ Editing /\ mode = "Insert" /\ ~disk.exists
    /\ content = << <<"a", "E">> >> /\ cursor = <<0, 2>>

Max(a, b) == IF a >= b THEN a ELSE b

\* The rows a frame shows of buffer cont when the size query of the loop
\* answers size and the one of draw_content answers cols columns, with every
\* subtraction stopped at zero: rows - 1 lines, cols - 5 characters of each.
ClampedFrame(size, cols, cont) ==
    [row \in 1..Min(Len(cont), Max(size[1] - 1, 0)) |->
        SubSeq(cont[row], 1, Min(Len(cont[row]), Max(cols - 5, 0)))]

\* C16: for every terminal size no subtraction of the renderer goes below
\* zero (the frame never panics), and a line is cut to max(cols - 5, 0)
\* characters, on at most max(rows - 1, 0) rows.
C16_RenderClamps ==
    /\ pc # "panic_render"
    /\ (Editing /\ ~should_exit) =>
          \A size \in tty, dsize \in tty :
              /\ draw_content_underflows(size, dsize[2], content) = {}
              /\ status_underflows(size) = {}
              /\ draw_content(size, dsize[2], content)
                    = ClampedFrame(size, dsize[2], content)

\* The step dispatches a key press to the handler of the mode.
KeyDispatch ==
    \/ \E ev \in NormalKeys : handle_normal_mode(ev)
    \/ \E ev \in InsertKeys : handle_insert_mode(ev)
    \/ \E ev \in CommandKeys : command_mode_keys(ev)

\* main is past its loop.
AfterLoop == pc \in {"show", "leave", "disable", "ok"}

\* C17: a key is dispatched, and an iteration made at all, only while the
\* exit flag is false; the flag, once set, stays set; with the flag set the
\* only step of the loop is to end it, and main never comes back to the loop.
C17_LoopEndsOnExitFlag ==
    /\ [][KeyDispatch => ~should_exit]_vars
    /\ [][(pc = "loop" /\ pc' \in {"loop", "panic_handler", "panic_render"})
            => ~should_exit]_vars
    /\ [][should_exit => should_exit']_vars
    /\ [][(pc = "loop" /\ should_exit) => pc' = "show"]_vars
    /\ [][(pc = "loop" /\ pc' = "show") => should_exit]_vars
    /\ [][AfterLoop => pc' # "loop"]_vars

\* C17 witness: the flag was set, the loop ended and the cursor was shown.
C17_Witness ==
    /\ pc = "leave" /\ should_exit
    /\ term = [raw |-> TRUE, alt |-> TRUE, hidden |-> FALSE]

\* The buffer has none of the trailing-newline cases: it is a single line,
\* or its last line is not empty.
NoTrailingNewlineCase ==
    /\ Len(content) >= 1
    /\ Len(content) = 1 \/ content[Len(content)] # <<>>

\* C18: when such a buffer is saved, loading the file at startup gives the
\* same sequence of lines.
C18_SaveLoadRoundTrip ==
    [][(SaveAttempt /\ status_message' = <<"File saved">> /\ NoTrailingNewlineCase)
         => Load(disk', TRUE) = content]_vars

\* What C19 says of a `j`/Down step and of a `k`/Up step.
DownAsClaimed ==
    /\ pc' = "loop" /\ content' = content
    /\ Row < Len(content)
    /\ cursor'[1] = IF Row = Len(content) - 1 THEN Row ELSE Row + 1
    /\ cursor'[2] = Min(Col, Len(content[cursor'[1] + 1]))

UpAsClaimed ==
    /\ pc' = "loop" /\ content' = content
    /\ Row < Len(content)
    /\ cursor'[1] = IF Row = 0 THEN 0 ELSE Row - 1
    /\ cursor'[2] = Min(Col, Len(content[cursor'[1] + 1]))

\* C19: in Normal mode `j`/Down and `k`/Up leave the buffer alone; `j` on the
\* last row and `k` on row 0 keep the row, otherwise the row moves by exactly
\* one; afterwards the column is the smaller of the column before and the
\* character count of the line at the new row.  Stated of every state: no
\* vertical move can be made from it that ends otherwise (a move that leaves
\* the cursor where it is included).
C19_VerticalMoves ==
    ~ENABLED (\E ev \in NormalKeys :
                 \/ NormalDown(ev) /\ ~DownAsClaimed
                 \/ NormalUp(ev) /\ ~UpAsClaimed)

\* C20: while the mode is Command no key press changes the buffer lines or
\* the cursor, and every key press is handled (the loop goes on).
C20_CommandKeepsBuffer ==
    [][(\E ev \in CommandKeys : command_mode_keys(ev)) =>
         /\ pc' = "loop"
         /\ content' = content
         /\ cursor' = cursor]_vars

\* C20 witness: with the cursor on the second line, `w` was executed in
\* Command mode and wrote the file, and a character was typed after it.
C20_Witness ==
    /\ Editing /\ mode = "Command" /\ ~should_exit
    /\ status_message = <<"File saved">>
    /\ command_buffer = <<"q">>
    /\ cursor = <<1, 0>> /\ Len(content) = 2

====
